---------------------------- MODULE Spec2Model ----------------------------
(***************************************************************************)
(* Model of padel_app.py: the players / matches tables of the SQLite file, *)
(* add_player, and the rating engine process_match, both as one sequential *)
(* call and as the statement-by-statement run of two connections.          *)
(*                                                                         *)
(* Python floats are modelled as binary floating point numbers with a      *)
(* MantBits-bit significand, rounded to nearest (ties to even) after every *)
(* operation, exactly as IEEE-754 does with 53 bits.  A float is held as   *)
(* an integer count of 2^-FracBits units.                                  *)
(***************************************************************************)
EXTENDS Integers, Naturals, Sequences, FiniteSets, TLC

\* ------------------------------------------------------------------ bounds
MaxMatches == 2
MaxSeason == 6
MaxCalls == 2

\* ------------------------------------------------------- program constants
K_FACTOR_STANDARD == 32
K_FACTOR_PROVISIONAL == 64
PROVISIONAL_LIMIT == 5
RATING_FLOOR == 100
SCALING_FACTOR == 100

\* ------------------------------------------------------ float arithmetic
FracBits == 14
MantBits == 11

RECURSIVE Pow2(_)
Pow2(n) == IF n = 0 THEN 1 ELSE 2 * Pow2(n - 1)

RECURSIVE PowInt(_, _)
PowInt(b, n) == IF n = 0 THEN 1 ELSE b * PowInt(b, n - 1)

Unit == Pow2(FracBits)

Abs(x) == IF x < 0 THEN -x ELSE x

\* int -> float conversion (exact for the small integers of the program)
FromInt(n) == n * Unit

\* num/den rounded to the nearest integer, ties to the even one
RoundDiv(num, den) ==
    LET q == num \div den
        r == num % den
    IN  IF 2 * r < den THEN q
        ELSE IF 2 * r > den THEN q + 1
        ELSE IF q % 2 = 0 THEN q ELSE q + 1

\* first magnitude that needs more than MantBits bits
MantLimit == Pow2(MantBits)

\* spacing of the floats around magnitude a (a in units)
RECURSIVE UlpOf(_, _)
UlpOf(a, q) == IF a < MantLimit * q THEN q ELSE UlpOf(a, 2 * q)

\* the float nearest to the exact value num/den (in units), den > 0
FRound(num, den) ==
    LET a == Abs(num)
        k == UlpOf(a \div den, 1)
        m == RoundDiv(a, den * k) * k
    IN  IF num < 0 THEN -m ELSE m

FAdd(x, y) == FRound(x + y, 1)
FSub(x, y) == FRound(x - y, 1)
\* int * float
FMulInt(n, x) == FRound(n * x, 1)
\* float / int
FDivInt(x, n) == FRound(x, n)
\* int / int (true division)
IntDiv(a, b) == FRound(a * Unit, b)
\* int / float
IntDivF(n, d) == FRound(n * Unit * Unit, d)
\* max(int, float)
FMax(n, x) == IF x > FromInt(n) THEN x ELSE FromInt(n)

\* ln(10) in units
LN10 == RoundDiv(23026 * Unit, 10000)

\* e^z for 0 <= z < ln 10, by its power series (sum of z^k / k!)
RECURSIVE ExpSeries(_, _, _)
ExpSeries(z, term, k) ==
    IF term = 0 THEN 0
    ELSE term + ExpSeries(z, RoundDiv(term * z, k * Unit), k + 1)

\* 10 ** y for a float y
Pow10(y) ==
    LET n == y \div Unit
        f == y % Unit
        z == RoundDiv(f * LN10, Unit)
        frac10 == ExpSeries(z, Unit, 1)
    IN  IF n >= 0 THEN FRound(frac10 * PowInt(10, n), 1)
        ELSE FRound(frac10, PowInt(10, -n))

\* ------------------------------------------------------------ ELO MATH
calculate_expected_score(rating_a, rating_b) ==
    IntDivF(1, FAdd(FromInt(1), Pow10(FDivInt(FSub(rating_b, rating_a), 400))))


\* --------------------------------------------------------------- inputs
Conns == {1, 2}
RegInputs == {<<"ana", 50>>, <<"ben", 50>>, <<"cai", 50>>, <<"dan", 50>>, <<"dan", 5>>}
LineUps == {<<1, 2, 3, 4>>, <<4, 3, 1, 2>>, <<1, 1, 2, 3>>}
ScoresT1 == {0, 10}
ScoresT2 == {0, 2}
SeasonRoster == <<<<"ana", 100>>, <<"ben", 50>>, <<"cai", 10>>, <<"dan", 5>>, <<"eve", 30>>>>
SeasonInputs == {<<1, 2, 3, 4, 3, 2>>, <<1, 2, 3, 4, 0, 2>>,
                 <<3, 4, 1, 5, 3, 2>>, <<3, 4, 1, 5, 0, 2>>}
ConcInputs == {<<1, 2, 3, 4, 3, 2>>, <<3, 4, 1, 5, 0, 2>>}
PlayerIds == 1..Len(SeasonRoster)

\* ---------------------------------------------------------------- state
VARIABLES
    players,    \* table players: row id |-> [name, rating, matches_played]
    matches,    \* table matches, in insertion order
    pc,         \* per connection: the statement process_match executes next
    args,       \* per connection: <<p1_id, p2_id, p3_id, p4_id, score_t1, score_t2>>
    fetched,    \* per connection: the rows read so far (the dict `players`)
    locals,     \* per connection: expected_t1, actual_t1, k, change and the list `updates`
    pending,    \* per connection: statements of the open, uncommitted transaction
    lock,       \* the connection holding the database write lock, 0 if none
    last,       \* history: the most recently finished process_match call
    calls       \* history: per player id, successful calls it took part in

vars == <<players, matches, pc, args, fetched, locals, pending, lock, last, calls>>
conn == <<pc, args, fetched, locals, pending, lock>>

None == <<>>
NoCall == [ids |-> <<>>, s1 |-> 0, s2 |-> 0, success |-> FALSE, raised |-> "",
           msg |-> "", read |-> <<>>, k |-> <<>>, change |-> <<>>,
           expected_t1 |-> 0, actual_t1 |-> 0, updates |-> <<>>, discarded |-> 0]

\* ------------------------------------------------------------ add_player
backend_rating(tenths) == FMulInt(SCALING_FACTOR, IntDiv(tenths, 10))

NameTaken(tbl, name) == \E i \in 1..Len(tbl) : tbl[i].name = name

InsertPlayer(tbl, name, tenths) ==
    Append(tbl, [name |-> name, rating |-> backend_rating(tenths), matches_played |-> 0])

add_player(name, tenths) ==
    /\ players' = IF NameTaken(players, name) THEN players
                  ELSE InsertPlayer(players, name, tenths)
    /\ UNCHANGED <<matches, conn, last, calls>>

\* --------------------------------------------------------- process_match
\* SELECT rating, matches_played FROM players WHERE id=? ; fetchone()
Fetch(tbl, pid) ==
    IF pid \in 1..Len(tbl) THEN <<tbl[pid].rating, tbl[pid].matches_played>> ELSE None

\* the limit taken inclusive
KFactorInclusive(matches_played) ==
    IF matches_played <= PROVISIONAL_LIMIT THEN K_FACTOR_PROVISIONAL ELSE K_FACTOR_STANDARD

KFactor(matches_played) ==
    IF matches_played < PROVISIONAL_LIMIT THEN K_FACTOR_PROVISIONAL ELSE K_FACTOR_STANDARD

\* surprisal taken the wrong way round
Team1ChangeSwapped(k, actual_t1, expected_t1) == FMulInt(k, FSub(expected_t1, actual_t1))

Team1Change(k, actual_t1, expected_t1) == FMulInt(k, FSub(actual_t1, expected_t1))

\* Team 1's formula reused for Team 2
Team2ChangeSameSign(k, actual_t1, expected_t1) == FMulInt(k, FSub(actual_t1, expected_t1))

Team2Change(k, actual_t1, expected_t1) ==
    FMulInt(k, FSub(FSub(FromInt(1), actual_t1), FSub(FromInt(1), expected_t1)))

\* the floor left out
NewRatingNoFloor(rating, change) == FAdd(rating, change)

NewRating(rating, change) == FMax(RATING_FLOOR, FAdd(rating, change))

\* the counter written back as read
NewMatchesStuck(matches_played) == matches_played

NewMatches(matches_played) == matches_played + 1

\* the comparison mistyped
ZeroTotalNegative(score_t1, score_t2) == score_t1 + score_t2 < 0

\* if total_points == 0
ZeroTotal(score_t1, score_t2) == score_t1 + score_t2 = 0

\* step 5 of process_match: the four entries of `updates` and what led to them
Changes(ids, f, expected_t1, actual_t1) ==
    LET k == [i \in 1..4 |-> KFactor(f[i][2])]
        change == [i \in 1..4 |->
                     IF i <= 2 THEN Team1Change(k[i], actual_t1, expected_t1)
                     ELSE Team2Change(k[i], actual_t1, expected_t1)]
    IN  [expected_t1 |-> expected_t1, actual_t1 |-> actual_t1, k |-> k,
         change |-> change,
         updates |-> [i \in 1..4 |->
                        <<ids[i], NewRating(f[i][1], change[i]), NewMatches(f[i][2])>>]]

\* steps 2-5 of process_match on the four fetched rows f, for total_points > 0
Engine(ids, f, score_t1, score_t2) ==
    LET team1_rating == FDivInt(FAdd(f[1][1], f[2][1]), 2)
        team2_rating == FDivInt(FAdd(f[3][1], f[4][1]), 2)
        total_points == score_t1 + score_t2
    IN  CHOOSE e \in {Changes(ids, f, x[1], x[2]) :
                        x \in {<<calculate_expected_score(team1_rating, team2_rating),
                                 IntDiv(score_t1, total_points)>>}} : TRUE

ref_change(upd, f) == FSub(upd[1][2], f[1][1])

\* UPDATE players SET rating=?, matches_played=? WHERE id=?
UpdatePlayer(tbl, u) ==
    IF u[1] \in 1..Len(tbl)
    THEN [tbl EXCEPT ![u[1]].rating = u[2], ![u[1]].matches_played = u[3]]
    ELSE tbl

RECURSIVE ApplyUpdates(_, _)
ApplyUpdates(tbl, upd) ==
    IF upd = <<>> THEN tbl ELSE ApplyUpdates(UpdatePlayer(tbl, Head(upd)), Tail(upd))

\* INSERT INTO matches (...) VALUES (...)
MatchRow(a, upd, f) ==
    [p1_id |-> a[1], p2_id |-> a[2], p3_id |-> a[3], p4_id |-> a[4],
     score_team1 |-> a[5], score_team2 |-> a[6],
     rating_change_team1 |-> ref_change(upd, f),
     rating_change_team2 |-> -ref_change(upd, f)]

Participants(a) == {a[1], a[2], a[3], a[4]}

CountCall(c, a) == [p \in PlayerIds |-> IF p \in Participants(a) THEN c[p] + 1 ELSE c[p]]

\* what a finished call leaves in the history variable
Raised(a, f, exc, n) ==
    [NoCall EXCEPT !.ids = SubSeq(a, 1, 4), !.s1 = a[5], !.s2 = a[6],
                   !.raised = exc, !.read = f, !.discarded = n]
ReturnedZero(a, f) ==
    [NoCall EXCEPT !.ids = SubSeq(a, 1, 4), !.s1 = a[5], !.s2 = a[6],
                   !.msg = "Total points cannot be zero.", !.read = f]
ReturnedOk(a, f, e) ==
    [NoCall EXCEPT !.ids = SubSeq(a, 1, 4), !.s1 = a[5], !.s2 = a[6],
                   !.success = TRUE, !.msg = "Match recorded!", !.read = f,
                   !.k = e.k, !.change = e.change, !.expected_t1 = e.expected_t1,
                   !.actual_t1 = e.actual_t1, !.updates = e.updates]

\* one whole call of process_match with no other connection active
process_match(a) ==
    /\ \A c \in Conns : pc[c] = "idle"
    /\ \E f \in {[i \in 1..4 |-> Fetch(players, a[i])]} :
          IF \E i \in 1..4 : f[i] = None
          THEN \* r1, m1 = players[p1_id] raises TypeError on None
               /\ last' = Raised(a, f, "TypeError", 0)
               /\ UNCHANGED <<players, matches, calls>>
          ELSE IF ZeroTotal(a[5], a[6])
          THEN /\ last' = ReturnedZero(a, f)
               /\ UNCHANGED <<players, matches, calls>>
          ELSE IF a[5] + a[6] = 0
          THEN \* score_t1 / total_points raises ZeroDivisionError
               /\ last' = Raised(a, f, "ZeroDivisionError", 0)
               /\ UNCHANGED <<players, matches, calls>>
          ELSE \E e \in {Engine(a, f, a[5], a[6])} :
               /\ players' = ApplyUpdates(players, e.updates)
               /\ matches' = Append(matches, MatchRow(a, e.updates, f))
               /\ last' = ReturnedOk(a, f, e)
               /\ calls' = CountCall(calls, a)
    /\ UNCHANGED conn

\* ------------------------------------------------------- specifications
Init ==
    /\ players = <<>>
    /\ matches = <<>>
    /\ pc = [c \in Conns |-> "idle"]
    /\ args = [c \in Conns |-> <<>>]
    /\ fetched = [c \in Conns |-> <<>>]
    /\ locals = [c \in Conns |-> <<>>]
    /\ pending = [c \in Conns |-> <<>>]
    /\ lock = 0
    /\ last = NoCall
    /\ calls = [p \in PlayerIds |-> 0]

AddPlayer == \E r \in RegInputs : add_player(r[1], r[2])

ProcessMatch ==
    /\ Len(matches) < MaxMatches
    /\ \E l \in LineUps, s1 \in ScoresT1, s2 \in ScoresT2 :
          process_match(l \o <<s1, s2>>)

Next == AddPlayer \/ ProcessMatch

Spec == Init /\ [][Next]_vars

\* a league of registered players that plays match after match
RECURSIVE Register(_, _)
Register(tbl, roster) ==
    IF roster = <<>> THEN tbl
    ELSE Register(InsertPlayer(tbl, Head(roster)[1], Head(roster)[2]), Tail(roster))

InitLeague ==
    /\ players = Register(<<>>, SeasonRoster)
    /\ matches = <<>>
    /\ pc = [c \in Conns |-> "idle"]
    /\ args = [c \in Conns |-> <<>>]
    /\ fetched = [c \in Conns |-> <<>>]
    /\ locals = [c \in Conns |-> <<>>]
    /\ pending = [c \in Conns |-> <<>>]
    /\ lock = 0
    /\ last = NoCall
    /\ calls = [p \in PlayerIds |-> 0]

SeasonMatch ==
    /\ Len(matches) < MaxSeason
    /\ \E a \in SeasonInputs : process_match(a)

SpecSeason == InitLeague /\ [][SeasonMatch]_vars

\* ------------------------------------- process_match, statement by statement
\* Two sessions run process_match on connections of their own.  The SELECTs
\* run outside any transaction; the first UPDATE opens one, which takes the
\* database write lock and holds its statements back until conn.commit().

Busy == {c \in Conns : pc[c] # "idle"}

Finish(c, l) ==
    /\ pc' = [pc EXCEPT ![c] = "idle"]
    /\ args' = [args EXCEPT ![c] = <<>>]
    /\ fetched' = [fetched EXCEPT ![c] = <<>>]
    /\ locals' = [locals EXCEPT ![c] = <<>>]
    /\ pending' = [pending EXCEPT ![c] = <<>>]
    /\ lock' = IF lock = c THEN 0 ELSE lock
    /\ last' = l

\* conn = sqlite3.connect(DB_FILE); c = conn.cursor()
Call(c) ==
    /\ pc[c] = "idle"
    /\ Len(matches) + Cardinality(Busy) < MaxCalls
    /\ \E a \in ConcInputs : args' = [args EXCEPT ![c] = a]
    /\ pc' = [pc EXCEPT ![c] = "select"]
    /\ UNCHANGED <<players, matches, fetched, locals, pending, lock, last, calls>>

\* one SELECT of the loop over [p1_id, p2_id, p3_id, p4_id]
Select(c) ==
    /\ pc[c] = "select"
    /\ fetched' = [fetched EXCEPT
                     ![c] = Append(@, Fetch(players, args[c][Len(@) + 1]))]
    /\ pc' = [pc EXCEPT ![c] = IF Len(fetched[c]) = 3 THEN "compute" ELSE "select"]
    /\ UNCHANGED <<players, matches, args, locals, pending, lock, last, calls>>

\* unpacking the rows, steps 2-5
Compute(c) ==
    /\ pc[c] = "compute"
    /\ IF \E i \in 1..4 : fetched[c][i] = None
       THEN Finish(c, Raised(args[c], fetched[c], "TypeError", 0))
       ELSE IF ZeroTotal(args[c][5], args[c][6])
       THEN Finish(c, ReturnedZero(args[c], fetched[c]))
       ELSE IF args[c][5] + args[c][6] = 0
       THEN Finish(c, Raised(args[c], fetched[c], "ZeroDivisionError", 0))
       ELSE /\ locals' = [locals EXCEPT
                            ![c] = Engine(args[c], fetched[c], args[c][5], args[c][6])]
            /\ pc' = [pc EXCEPT ![c] = "update"]
            /\ UNCHANGED <<args, fetched, pending, lock, last>>
    /\ UNCHANGED <<players, matches, calls>>

\* what a statement does to the tables once it takes effect
Effect(db, stmt) ==
    IF stmt[1] = "UPDATE"
    THEN [db EXCEPT !.players = UpdatePlayer(@, stmt[2])]
    ELSE [db EXCEPT !.matches = Append(@, stmt[2])]

RECURSIVE EffectAll(_, _)
EffectAll(db, txn) ==
    IF txn = <<>> THEN db ELSE EffectAll(Effect(db, Head(txn)), Tail(txn))

\* a connection in autocommit mode: the statement takes effect at once
ExecuteWriteAutocommit(tbl, log, txn, stmt) ==
    [players |-> Effect([players |-> tbl, matches |-> log], stmt).players,
     matches |-> Effect([players |-> tbl, matches |-> log], stmt).matches,
     pending |-> Append(txn, stmt)]

\* c.execute of a writing statement on a connection in an open transaction:
\* the statement joins the transaction, the tables other connections read stay
ExecuteWrite(tbl, log, txn, stmt) ==
    [players |-> tbl, matches |-> log, pending |-> Append(txn, stmt)]

Write(c, stmt, next) ==
    /\ lock \in {0, c}
    /\ \E w \in {ExecuteWrite(players, matches, pending[c], stmt)} :
          /\ players' = w.players
          /\ matches' = w.matches
          /\ pending' = [pending EXCEPT ![c] = w.pending]
    /\ lock' = c
    /\ pc' = [pc EXCEPT ![c] = next]
    /\ UNCHANGED <<args, fetched, locals, last, calls>>

\* one UPDATE of the loop over updates
Update(c) ==
    /\ pc[c] = "update"
    /\ Write(c, <<"UPDATE", locals[c].updates[Len(pending[c]) + 1]>>,
             IF Len(pending[c]) = 3 THEN "insert" ELSE "update")

\* INSERT INTO matches
Insert(c) ==
    /\ pc[c] = "insert"
    /\ Write(c, <<"INSERT", MatchRow(args[c], locals[c].updates, fetched[c])>>, "commit")

\* conn.commit(); conn.close(); return True, ...
Commit(c) ==
    /\ pc[c] = "commit"
    /\ \E db \in {EffectAll([players |-> players, matches |-> matches], pending[c])} :
          /\ players' = db.players
          /\ matches' = db.matches
    /\ calls' = CountCall(calls, args[c])
    /\ Finish(c, ReturnedOk(args[c], fetched[c], locals[c]))

\* a statement raises sqlite3.OperationalError (database is locked, disk I/O
\* error): nothing catches it, the connection is dropped without a commit and
\* its transaction is rolled back
Fail(c) ==
    /\ pc[c] \in {"select", "update", "insert", "commit"}
    /\ Finish(c, Raised(args[c], fetched[c], "OperationalError", Len(pending[c])))
    /\ UNCHANGED <<players, matches, calls>>

NextConc ==
    \E c \in Conns : Call(c) \/ Select(c) \/ Compute(c) \/ Update(c) \/ Insert(c)
                       \/ Commit(c) \/ Fail(c)

SpecConc == InitLeague /\ [][NextConc]_vars

\* ------------------------------------------------------------ properties
Rows == 1..Len(players)
Floor == FromInt(RATING_FLOOR)
AllIdle == \A c \in Conns : pc[c] = "idle"
\* machine epsilon of the float format (2^-52 for Python's doubles)
FloatEpsilon == (2 * Unit) \div MantLimit

\* a step that is a finished call of process_match
CallStep == last' # last \/ matches' # matches
IdsOf(l) == {l.ids[i] : i \in 1..Len(l.ids)}
AllFound(l) == l.ids # <<>> /\ \A i \in 1..4 : l.read[i] # None
TablesUnchanged == players' = players /\ matches' = matches

\* C1: every player who took part in a successful call has rating >= RATING_FLOOR
C1_RatingFloor ==
    \A p \in Rows : calls[p] > 0 => players[p].rating >= Floor

\* a participant whose rating plus delta was below the floor ends exactly on it
C1_Witness ==
    /\ last.success
    /\ \E i \in 1..4 : /\ last.change[i] < 0
                       /\ last.read[i][1] + last.change[i] < Floor
                       /\ last.updates[i][2] = Floor
                       /\ players[last.ids[i]].rating = Floor

\* C2: a successful call adds exactly 1 to matches_played of each participant
\* and to no one else's, a failed call changes no matches_played, and so
\* matches_played always equals the number of successful calls of the player
C2_MatchesPlayed ==
    /\ [](\A p \in Rows : players[p].matches_played = calls[p])
    /\ [][CallStep =>
            \A p \in Rows :
               players'[p].matches_played =
                  players[p].matches_played
                    + (IF last'.success /\ p \in IdsOf(last') THEN 1 ELSE 0)]_vars

\* a player's second match, with another player sitting out
C2_Witness ==
    /\ last.success
    /\ \E p \in IdsOf(last) : players[p].matches_played = 2 /\ calls[p] = 2
    /\ \E q \in Rows \ IdsOf(last) : players[q].matches_played = calls[q]

\* C3: a call with both scores 0 on four existing players returns the
\* "Total points cannot be zero." failure and changes no table
C3_ZeroScore ==
    [][(CallStep /\ AllFound(last') /\ last'.s1 = 0 /\ last'.s2 = 0) =>
          /\ last'.raised = "" /\ ~last'.success
          /\ last'.msg = "Total points cannot be zero."
          /\ TablesUnchanged]_vars

C3_Witness ==
    /\ AllFound(last) /\ last.s1 = 0 /\ last.s2 = 0
    /\ last.msg = "Total points cannot be zero."
    /\ matches # <<>>

\* C4: the tables other connections read change only in one step that applies
\* all four player updates and the match insert of one call together; a call
\* that fails leaves them as they were
C4_Atomic ==
    [][/\ ~TablesUnchanged =>
            \E c \in Conns :
               /\ pc[c] = "commit"
               /\ players' = ApplyUpdates(players, locals[c].updates)
               /\ matches' = Append(matches, MatchRow(args[c], locals[c].updates, fetched[c]))
       /\ (last' # last /\ last'.raised # "") => TablesUnchanged]_vars

\* a call failed after it had executed some of its five statements
C4_Witness ==
    /\ last.raised = "OperationalError"
    /\ last.discarded \in 1..4
    /\ \A p \in PlayerIds : players[p].matches_played = 0
    /\ matches = <<>>

\* C5: once all calls have returned, the state is that of a serial order of
\* the calls: every player's matches_played rose by 1 per successful call
C5_Serial ==
    AllIdle => \A p \in PlayerIds : players[p].matches_played = calls[p]

\* C6: a call with fewer than four distinct ids fails and changes no table
C6_DuplicateRejected ==
    [][(CallStep /\ last'.ids # <<>> /\ Cardinality(IdsOf(last')) < 4) =>
          ~last'.success /\ TablesUnchanged]_vars

\* C7: a call with an id that has no row returns a failure (no exception
\* escapes) and changes no table
C7_NotFoundReturned ==
    [][(CallStep /\ last'.ids # <<>> /\ ~AllFound(last')) =>
          last'.raised = "" /\ ~last'.success /\ TablesUnchanged]_vars

\* C8: each player's K is 64 when the matches_played read for that player is
\* below 5 and 32 otherwise, so it is 64 in the player's first five matches and
\* 32 afterwards; a K=64 player's delta is twice a K=32 teammate's
C8_KFactor ==
    last.success =>
       /\ \A i \in 1..4 :
             /\ last.k[i] = IF last.read[i][2] < 5 THEN 64 ELSE 32
             /\ last.k[i] = IF calls[last.ids[i]] <= 5 THEN 64 ELSE 32
       /\ \A i, j \in 1..4 :
             ((i <= 2) = (j <= 2) /\ last.k[i] = 64 /\ last.k[j] = 32)
                => last.change[i] = 2 * last.change[j]

\* a veteran in a sixth match next to a newcomer in a first one
C8_Witness ==
    /\ last.success
    /\ \E i, j \in 1..4 :
          /\ (i <= 2) = (j <= 2)
          /\ calls[last.ids[i]] = 6 /\ last.k[i] = 32
          /\ calls[last.ids[j]] = 1 /\ last.k[j] = 64
          /\ last.change[j] # 0

OppositeSameK(l, i, j) == i <= 2 /\ j >= 3 /\ l.k[i] = l.k[j]

Scenario(l) ==
    /\ l.success /\ l.s1 = 10 /\ l.s2 = 0
    /\ \A i \in 1..4 : l.k[i] = 64 /\ l.read[i][1] = FromInt(500)

ScenarioResult(l) ==
    /\ l.expected_t1 = Unit \div 2 /\ l.actual_t1 = Unit
    /\ \A i \in 1..2 : l.change[i] = FromInt(32) /\ l.updates[i][2] = FromInt(532)
    /\ \A j \in 3..4 : l.change[j] = FromInt(-32) /\ l.updates[j][2] = FromInt(468)

Gain(l, i) == 0 < l.change[i] /\ l.change[i] <= FromInt(l.k[i])

\* C10 as stated: every player of the team with more points has a positive delta
C10_WinnerGains ==
    last.success =>
       /\ last.s1 > last.s2 => \A i \in 1..2 : Gain(last, i)
       /\ last.s2 > last.s1 => \A j \in 3..4 : Gain(last, j)

\* C10 amended: every player of a team whose share of the points exceeds its
\* expected score (by more than float rounding) has a positive delta, at most K
C10_OutperformerGains ==
    last.success =>
       /\ last.actual_t1 - last.expected_t1 >= FloatEpsilon
             => \A i \in 1..2 : Gain(last, i)
       /\ last.expected_t1 - last.actual_t1 >= FloatEpsilon
             => \A j \in 3..4 : Gain(last, j)

\* a narrow win of the underdogs: small positive deltas
C10_Witness ==
    /\ last.success /\ last.s1 = 3 /\ last.s2 = 2
    /\ last.actual_t1 > last.expected_t1
    /\ \A i \in 1..2 : 0 < last.change[i] /\ last.change[i] < FromInt(last.k[i]) \div 2

=============================================================================
